---- MODULE Spec2Model ----
(***************************************************************************)
(* The TaskEscrow ledger (SOLIDITY_CONTRACT_SOURCE in constants.ts) and    *)
(* the wallet service's write path to it (services/web3Service.ts).        *)
(*                                                                         *)
(* A transaction is atomic: a failed require, a failed native transfer or  *)
(* a reverting token call rolls back every storage write and transfer the  *)
(* transaction made.  Each contract function is an operator from the       *)
(* pre-state to its outcome (the error, or the committed post-state); the  *)
(* action applies the outcome and records the call in lastCall.            *)
(*                                                                         *)
(* The token is an ERC20 as declared by ERC20_ABI: transferFrom needs      *)
(* allowance and balance, transfer needs balance, and either may also fail *)
(* for reasons of the token or the recipient (the tokenOk / payoutOk       *)
(* inputs).  block.timestamp (createdAt) is written once at creation and   *)
(* read by no contract function; it is not modelled.                       *)
(***************************************************************************)
EXTENDS Integers, FiniteSets, Sequences, TLC

(* ---------------------------- bounds ----------------------------------- *)
MaxTasks == 2
MaxAmount == 2
InitBal == 2

(* --------------------------- addresses --------------------------------- *)
ZERO == "0x0"
ESCROW == "escrow"
MNEE == "mnee"
Users == {"u1", "u2"}
Addr == Users \cup {ESCROW, ZERO}
Agents == Users \cup {ESCROW}
BadAddress == "0xbad"
Assets == {ZERO, MNEE}
Amounts == 0..MaxAmount
Results == {"r1", "r2"}
Details == {"d"}

(* enum Status { OPEN, SUBMITTED, COMPLETED, DISPUTED, CANCELLED } *)
OPEN == 0
SUBMITTED == 1
COMPLETED == 2
DISPUTED == 3
CANCELLED == 4
Status == {OPEN, SUBMITTED, COMPLETED, DISPUTED, CANCELLED}

VARIABLES nextTaskId, tasks, balances, allowance, signer, pending, lastCall,
          now, cache, taskBatchPromise, fetch, calls, reads, allowCalls, flow,
          sent, app

vars == <<nextTaskId, tasks, balances, allowance, signer, pending, lastCall,
          now, cache, taskBatchPromise, fetch, calls, reads, allowCalls, flow,
          sent, app>>
(* The wallet service's signer and write in progress, the transactions the *)
(* write call that acted last has handed to the wallet, and the App        *)
(* component.                                                              *)
client == <<signer, pending, sent, app>>
ledger == <<nextTaskId, tasks, balances, allowance>>
(* The read path of the wallet service and the submission flow of a card. *)
sync == <<now, taskBatchPromise, fetch, calls, reads, allowCalls>>
view == <<sync, cache, flow>>

(* struct Task *)
Task(creator, agent, token, amount, description, status, result) ==
    [creator |-> creator, agent |-> agent, token |-> token, amount |-> amount,
     description |-> description, status |-> status, result |-> result]

(* A mapping slot that was never written reads as the zero value. *)
DefaultTask == Task(ZERO, ZERO, ZERO, 0, "", OPEN, "")

TaskIn(t, id) == IF id \in DOMAIN t THEN t[id] ELSE DefaultTask

TaskAt(id) == TaskIn(tasks, id)

(* No Web3Service.createTask call is between its two transactions. *)
NoPending == [agent |-> ZERO, amount |-> 0, description |-> ""]

TaskIds == 0..(MaxTasks - 1)

(* The outcome of a transaction: an error with the pre-state kept, or ok   *)
(* with the post-state.                                                    *)
Outcome(err, n, t, b, a) ==
    [err |-> err, nextTaskId |-> n, tasks |-> t, balances |-> b, allowance |-> a]

Revert(err) == Outcome(err, nextTaskId, tasks, balances, allowance)

Move(b, asset, from, to, amount) ==
    [b EXCEPT ![asset] =
        [h \in Addr |->
            b[asset][h] - (IF h = from THEN amount ELSE 0)
                        + (IF h = to THEN amount ELSE 0)]]

Put(t, id, task) == [i \in (DOMAIN t) \cup {id} |-> IF i = id THEN task ELSE t[i]]

(* createTask without nextTaskId++ *)
createTaskTx_NoIncrement(sender, _agent, _details, value) ==
    IF ~(value > 0) THEN Revert("InvalidAmount")
    ELSE Outcome("ok",
                 nextTaskId,
                 Put(tasks, nextTaskId,
                     Task(sender, _agent, ZERO, value, _details, OPEN, "")),
                 Move(balances, ZERO, sender, ESCROW, value),
                 allowance)

(* function createTask(address _agent, string _details) payable *)
createTaskTx(sender, _agent, _details, value) ==
    IF ~(value > 0) THEN Revert("InvalidAmount")
    ELSE Outcome("ok",
                 nextTaskId + 1,
                 Put(tasks, nextTaskId,
                     Task(sender, _agent, ZERO, value, _details, OPEN, "")),
                 Move(balances, ZERO, sender, ESCROW, value),
                 allowance)

(* IERC20(_token).transferFrom(msg.sender, address(this), _amount) *)
transferFromOk(_token, from, _amount, tokenOk) ==
    /\ _token = MNEE
    /\ tokenOk
    /\ allowance[from] >= _amount
    /\ balances[_token][from] >= _amount

(* createTaskWithToken with the result of transferFrom ignored *)
createTaskWithTokenTx_NoTransferCheck(sender, _token, _amount, _agent, _details, tokenOk) ==
    IF ~(_amount > 0) THEN Revert("InvalidAmount")
    ELSE Outcome("ok",
                 nextTaskId + 1,
                 Put(tasks, nextTaskId,
                     Task(sender, _agent, _token, _amount, _details, OPEN, "")),
                 IF transferFromOk(_token, sender, _amount, tokenOk)
                 THEN Move(balances, _token, sender, ESCROW, _amount)
                 ELSE balances,
                 IF transferFromOk(_token, sender, _amount, tokenOk)
                 THEN [allowance EXCEPT ![sender] = @ - _amount]
                 ELSE allowance)

(* createTaskWithToken without require(_amount > 0) *)
createTaskWithTokenTx_NoAmountCheck(sender, _token, _amount, _agent, _details, tokenOk) ==
    IF ~transferFromOk(_token, sender, _amount, tokenOk)
    THEN Revert("TransferFailed")
    ELSE Outcome("ok",
                 nextTaskId + 1,
                 Put(tasks, nextTaskId,
                     Task(sender, _agent, _token, _amount, _details, OPEN, "")),
                 Move(balances, _token, sender, ESCROW, _amount),
                 [allowance EXCEPT ![sender] = @ - _amount])

(* function createTaskWithToken(_token, _amount, _agent, _details) *)
createTaskWithTokenTx(sender, _token, _amount, _agent, _details, tokenOk) ==
    IF ~(_amount > 0) THEN Revert("InvalidAmount")
    ELSE IF ~transferFromOk(_token, sender, _amount, tokenOk)
    THEN Revert("TransferFailed")
    ELSE Outcome("ok",
                 nextTaskId + 1,
                 Put(tasks, nextTaskId,
                     Task(sender, _agent, _token, _amount, _details, OPEN, "")),
                 Move(balances, _token, sender, ESCROW, _amount),
                 [allowance EXCEPT ![sender] = @ - _amount])

(* completeTask without require(task.status == Status.OPEN) *)
completeTaskTx_NoStatusCheck(sender, _taskId, _result) ==
    LET task == TaskAt(_taskId) IN
    IF sender # task.agent THEN Revert("Unauthorized")
    ELSE Outcome("ok",
                 nextTaskId,
                 Put(tasks, _taskId,
                     [task EXCEPT !.result = _result, !.status = SUBMITTED]),
                 balances,
                 allowance)

(* completeTask that accepts a resubmission while the task is not COMPLETED *)
completeTaskTx_Resubmit(sender, _taskId, _result) ==
    LET task == TaskAt(_taskId) IN
    IF sender # task.agent THEN Revert("Unauthorized")
    ELSE IF task.status \notin {OPEN, SUBMITTED} THEN Revert("InvalidState")
    ELSE Outcome("ok",
                 nextTaskId,
                 Put(tasks, _taskId,
                     [task EXCEPT !.result = _result, !.status = SUBMITTED]),
                 balances,
                 allowance)

(* completeTask that lets the creator submit as well as the agent *)
completeTaskTx_CreatorMaySubmit(sender, _taskId, _result) ==
    LET task == TaskAt(_taskId) IN
    IF sender # task.agent /\ sender # task.creator THEN Revert("Unauthorized")
    ELSE IF task.status # OPEN THEN Revert("InvalidState")
    ELSE Outcome("ok",
                 nextTaskId,
                 Put(tasks, _taskId,
                     [task EXCEPT !.result = _result, !.status = SUBMITTED]),
                 balances,
                 allowance)

(* function completeTask(uint256 _taskId, string _result) *)
completeTaskTx(sender, _taskId, _result) ==
    LET task == TaskAt(_taskId) IN
    IF sender # task.agent THEN Revert("Unauthorized")
    ELSE IF task.status # OPEN THEN Revert("InvalidState")
    ELSE Outcome("ok",
                 nextTaskId,
                 Put(tasks, _taskId,
                     [task EXCEPT !.result = _result, !.status = SUBMITTED]),
                 balances,
                 allowance)

(* approveTask paying the creator instead of the agent *)
approveTaskTx_PaysCreator(sender, _taskId, payoutOk) ==
    LET task == TaskAt(_taskId) IN
    IF sender # task.creator THEN Revert("Unauthorized")
    ELSE IF task.status # SUBMITTED THEN Revert("InvalidState")
    ELSE LET written == Put(tasks, _taskId, [task EXCEPT !.status = COMPLETED])
             paid == payoutOk /\ balances[task.token][ESCROW] >= task.amount
         IN  IF ~paid THEN Revert("TransferFailed")
             ELSE Outcome("ok",
                          nextTaskId,
                          written,
                          Move(balances, task.token, ESCROW, task.creator, task.amount),
                          allowance)

(* approveTask that the agent may call as well as the creator *)
approveTaskTx_AgentMayApprove(sender, _taskId, payoutOk) ==
    LET task == TaskAt(_taskId) IN
    IF sender # task.creator /\ sender # task.agent THEN Revert("Unauthorized")
    ELSE IF task.status # SUBMITTED THEN Revert("InvalidState")
    ELSE LET written == Put(tasks, _taskId, [task EXCEPT !.status = COMPLETED])
             paid == payoutOk /\ balances[task.token][ESCROW] >= task.amount
         IN  IF ~paid THEN Revert("TransferFailed")
             ELSE Outcome("ok",
                          nextTaskId,
                          written,
                          Move(balances, task.token, ESCROW, task.agent, task.amount),
                          allowance)

(* approveTask without require(task.status == Status.SUBMITTED) *)
approveTaskTx_NoStatusCheck(sender, _taskId, payoutOk) ==
    LET task == TaskAt(_taskId) IN
    IF sender # task.creator THEN Revert("Unauthorized")
    ELSE LET written == Put(tasks, _taskId, [task EXCEPT !.status = COMPLETED])
             paid == payoutOk /\ balances[task.token][ESCROW] >= task.amount
         IN  IF ~paid THEN Revert("TransferFailed")
             ELSE Outcome("ok",
                          nextTaskId,
                          written,
                          Move(balances, task.token, ESCROW, task.agent, task.amount),
                          allowance)

(* approveTask whose failed payout does not revert (an unchecked send) *)
approveTaskTx_UncheckedPayout(sender, _taskId, payoutOk) ==
    LET task == TaskAt(_taskId) IN
    IF sender # task.creator THEN Revert("Unauthorized")
    ELSE IF task.status # SUBMITTED THEN Revert("InvalidState")
    ELSE LET written == Put(tasks, _taskId, [task EXCEPT !.status = COMPLETED])
             paid == payoutOk /\ balances[task.token][ESCROW] >= task.amount
         IN  IF ~paid THEN Outcome("ok", nextTaskId, written, balances, allowance)
             ELSE Outcome("ok",
                          nextTaskId,
                          written,
                          Move(balances, task.token, ESCROW, task.agent, task.amount),
                          allowance)

(* approveTask that cancels an OPEN task and refunds its creator *)
approveTaskTx_RefundsOpen(sender, _taskId, payoutOk) ==
    LET task == TaskAt(_taskId) IN
    IF sender # task.creator THEN Revert("Unauthorized")
    ELSE IF task.status = OPEN
    THEN Outcome("ok",
                 nextTaskId,
                 Put(tasks, _taskId, [task EXCEPT !.status = CANCELLED]),
                 Move(balances, task.token, ESCROW, task.creator, task.amount),
                 allowance)
    ELSE IF task.status # SUBMITTED THEN Revert("InvalidState")
    ELSE LET written == Put(tasks, _taskId, [task EXCEPT !.status = COMPLETED])
             paid == payoutOk /\ balances[task.token][ESCROW] >= task.amount
         IN  IF ~paid THEN Revert("TransferFailed")
             ELSE Outcome("ok",
                          nextTaskId,
                          written,
                          Move(balances, task.token, ESCROW, task.agent, task.amount),
                          allowance)

(* function approveTask(uint256 _taskId): the status is written first, the *)
(* payout follows; a failed payout reverts the transaction and with it the *)
(* status write.                                                           *)
approveTaskTx(sender, _taskId, payoutOk) ==
    LET task == TaskAt(_taskId) IN
    IF sender # task.creator THEN Revert("Unauthorized")
    ELSE IF task.status # SUBMITTED THEN Revert("InvalidState")
    ELSE LET written == Put(tasks, _taskId, [task EXCEPT !.status = COMPLETED])
             paid == payoutOk /\ balances[task.token][ESCROW] >= task.amount
         IN  IF ~paid THEN Revert("TransferFailed")
             ELSE Outcome("ok",
                          nextTaskId,
                          written,
                          Move(balances, task.token, ESCROW, task.agent, task.amount),
                          allowance)

(* The last call made: its arguments and how it ended. *)
Call(op, sender, id, amount, result, err) ==
    [op |-> op, sender |-> sender, id |-> id, amount |-> amount, result |-> result,
     err |-> err]

NoCall == Call("none", ZERO, 0, 0, "", "ok")

(* ------------------- state of the wallet service's reads --------------- *)
NULL == "null"

(* private cache = new Map<string, CacheEntry<any>>() *)
EmptyCache == << >>

(* No _fetchTasksBatch is running. *)
NoFetch == [stage |-> "idle", owner |-> 0, total |-> 0, slots |-> << >>]

(* No TaskCard.handleSubmit is running. *)
NoAnswer ==
    [kind |-> "none", isApproved |-> "undefined",
     confidence |-> [isNumber |-> FALSE, value |-> 0], autoApprove |-> "undefined"]
NoEvaluation == [isApproved |-> "undefined", confidence |-> 0, autoApprove |-> "undefined"]
NoFlow == [pc |-> "idle", id |-> 0, result |-> "", answer |-> NoAnswer,
           evaluation |-> NoEvaluation]

(* The App component is not mounted. *)
NoApp == [mounted |-> FALSE, listening |-> FALSE, notification |-> -1,
          refreshTimers |-> 0]

(* a write that sends its transaction again when it fails *)
Send_Retry(log, op, err) ==
    IF err # "ok" THEN Append(Append(log, op), op) ELSE Append(log, op)

(* a write call hands one more transaction to the wallet; log holds the *)
(* transactions the call has sent before                               *)
Send(log, op, err) == Append(log, op)

InitView ==
    /\ sent = << >> /\ app = NoApp
    /\ now = 0
    /\ cache = EmptyCache
    /\ taskBatchPromise = NULL
    /\ fetch = NoFetch
    /\ calls = << >>
    /\ reads = [count |-> 0, task |-> 0, allowance |-> 0]
    /\ allowCalls = << >>
    /\ flow = NoFlow

Apply(out) ==
    /\ nextTaskId' = out.nextTaskId
    /\ tasks' = out.tasks
    /\ balances' = out.balances
    /\ allowance' = out.allowance

Init ==
    /\ nextTaskId = 0
    /\ tasks = << >>
    /\ balances = [a \in Assets |-> [h \in Addr |-> IF h \in Users THEN InitBal ELSE 0]]
    /\ allowance = [u \in Users |-> 0]
    /\ signer = ZERO
    /\ pending = NoPending
    /\ lastCall = NoCall
    /\ InitView

(* A native transfer of more than the sender owns is not a valid           *)
(* transaction; the ledger never executes it.                              *)
createTask ==
    \E sender \in Users, _agent \in Agents, _details \in Details, value \in Amounts :
        /\ nextTaskId < MaxTasks
        /\ balances[ZERO][sender] >= value
        /\ LET out == createTaskTx(sender, _agent, _details, value) IN
            /\ Apply(out)
            /\ lastCall' = Call("createTask", sender, nextTaskId, value, "", out.err)
        /\ UNCHANGED <<client, view>>

createTaskWithToken ==
    \E sender \in Users, _token \in Assets, _amount \in Amounts, _agent \in Agents,
       _details \in Details, tokenOk \in BOOLEAN :
        /\ nextTaskId < MaxTasks
        /\ LET out == createTaskWithTokenTx(sender, _token, _amount, _agent,
                                            _details, tokenOk) IN
            /\ Apply(out)
            /\ lastCall' = Call("createTaskWithToken", sender, nextTaskId, _amount, "",
                                out.err)
        /\ UNCHANGED <<client, view>>

completeTask ==
    \E sender \in Users, _taskId \in TaskIds, _result \in Results :
        /\ LET out == completeTaskTx(sender, _taskId, _result) IN
            /\ Apply(out)
            /\ lastCall' = Call("completeTask", sender, _taskId, 0, _result, out.err)
        /\ UNCHANGED <<client, view>>

approveTask ==
    \E sender \in Users, _taskId \in TaskIds, payoutOk \in BOOLEAN :
        /\ LET out == approveTaskTx(sender, _taskId, payoutOk) IN
            /\ Apply(out)
            /\ lastCall' = Call("approveTask", sender, _taskId, 0, "", out.err)
        /\ UNCHANGED <<client, view>>

(* ERC20 approve(spender, value) with spender = the escrow *)
approveTx(owner, value) ==
    Outcome("ok", nextTaskId, tasks, balances, [allowance EXCEPT ![owner] = value])

approve ==
    \E owner \in Users, value \in Amounts :
        /\ Apply(approveTx(owner, value))
        /\ lastCall' = Call("approve", owner, 0, value, "", "ok")
        /\ UNCHANGED <<client, view>>

(* The ledger, called directly by any account. *)
Next ==
    \/ createTask
    \/ createTaskWithToken
    \/ completeTask
    \/ approveTask
    \/ approve

Spec == Init /\ [][Next]_vars

(* ------------------------- the wallet service -------------------------- *)
(* Every transaction of the service is signed by the connected wallet.     *)

(* clearCache("tasks"): only the keys that contain the pattern go *)
clearCache_TasksOnly == [k \in {j \in DOMAIN cache : j[1] # "tasks"} |-> cache[k]]

(* clearCache() without a pattern *)
clearCache == EmptyCache

(* Web3Service.connect that succeeds: signer and contract handles of the    *)
(* wallet's account, then clearCache().                                    *)
Web3Service_connect ==
    \E account \in Users :
        /\ signer' = account
        /\ cache' = clearCache
        /\ lastCall' = Call("connect", account, 0, 0, "", "ok")
        /\ UNCHANGED <<ledger, pending, sent, app, sync, flow>>

(* a createTask that goes on to the creation when its approve failed *)
Web3Service_createTask_IgnoresApprove ==
    \E agent \in Agents \cup {BadAddress}, amount \in Amounts, description \in Details,
       approveOk \in BOOLEAN :
        /\ pending = NoPending
        /\ nextTaskId < MaxTasks
        /\ UNCHANGED view
        /\ IF agent = BadAddress \/ signer = ZERO
           THEN /\ lastCall' = Call("Web3Service.createTask", signer, nextTaskId, amount,
                                    "", "InvalidAddress")
                /\ sent' = << >>
                /\ UNCHANGED <<ledger, signer, pending, app>>
           ELSE /\ IF approveOk THEN Apply(approveTx(signer, amount)) ELSE UNCHANGED ledger
                /\ pending' = [agent |-> agent, amount |-> amount,
                               description |-> description]
                /\ lastCall' = Call("approve", signer, 0, amount, "",
                                    IF approveOk THEN "ok" ELSE "ApproveFailed")
                /\ sent' = Send(<< >>, "approve", "ok")
                /\ UNCHANGED <<signer, app>>

(* Web3Service.createTask up to the confirmation of the approve            *)
(* transaction: a malformed agent or a missing contract handle throws      *)
(* before anything is sent; a failed approve throws before the creation.   *)
Web3Service_createTask ==
    \E agent \in Agents \cup {BadAddress}, amount \in Amounts, description \in Details,
       approveOk \in BOOLEAN :
        /\ pending = NoPending
        /\ nextTaskId < MaxTasks
        /\ UNCHANGED view
        /\ IF agent = BadAddress
           THEN /\ lastCall' = Call("Web3Service.createTask", signer, nextTaskId, amount,
                                    "", "InvalidAddress")
                /\ sent' = << >>
                /\ UNCHANGED <<ledger, signer, pending, app>>
           ELSE IF signer = ZERO
           THEN /\ lastCall' = Call("Web3Service.createTask", signer, nextTaskId, amount,
                                    "", "NotInitialized")
                /\ sent' = << >>
                /\ UNCHANGED <<ledger, signer, pending, app>>
           ELSE IF ~approveOk
           THEN /\ lastCall' = Call("Web3Service.createTask", signer, nextTaskId, amount,
                                    "", "ApproveFailed")
                /\ sent' = Send(<< >>, "approve", "ApproveFailed")
                /\ UNCHANGED <<ledger, signer, pending, app>>
           ELSE /\ Apply(approveTx(signer, amount))
                /\ pending' = [agent |-> agent, amount |-> amount,
                               description |-> description]
                /\ lastCall' = Call("approve", signer, 0, amount, "", "ok")
                /\ sent' = Send(<< >>, "approve", "ok")
                /\ UNCHANGED <<signer, app>>

(* Web3Service.createTask after the approve: createTaskWithToken *)
Web3Service_createTaskSend ==
    \E tokenOk \in BOOLEAN :
        /\ pending # NoPending
        /\ LET out == createTaskWithTokenTx(signer, MNEE, pending.amount, pending.agent,
                                            pending.description, tokenOk) IN
            /\ Apply(out)
            /\ lastCall' = Call("createTaskWithToken", signer, nextTaskId,
                                pending.amount, "", out.err)
            /\ sent' = Send(<<"approve">>, "createTaskWithToken", out.err)
        /\ pending' = NoPending
        /\ UNCHANGED <<signer, app, view>>

(* Web3Service.submitTask: escrowContract.completeTask(taskId, result) *)
Web3Service_submitTask ==
    \E taskId \in TaskIds, result \in Results :
        /\ IF signer = ZERO
           THEN /\ lastCall' = Call("completeTask", signer, taskId, 0, result, "NotInitialized")
                /\ sent' = << >>
                /\ UNCHANGED ledger
           ELSE LET out == completeTaskTx(signer, taskId, result) IN
                /\ Apply(out)
                /\ lastCall' = Call("completeTask", signer, taskId, 0, result, out.err)
                /\ sent' = Send(<< >>, "completeTask", out.err)
        /\ UNCHANGED <<signer, pending, app, view>>

(* an approveTask that invalidates the cache after its transaction *)
Web3Service_approveTask_ClearsCache ==
    \E taskId \in TaskIds, payoutOk \in BOOLEAN :
        /\ IF signer = ZERO
           THEN /\ lastCall' = Call("approveTask", signer, taskId, 0, "", "NotInitialized")
                /\ sent' = << >>
                /\ UNCHANGED <<ledger, cache>>
           ELSE LET out == approveTaskTx(signer, taskId, payoutOk) IN
                /\ Apply(out)
                /\ lastCall' = Call("approveTask", signer, taskId, 0, "", out.err)
                /\ sent' = Send(<< >>, "approveTask", out.err)
                /\ cache' = IF out.err = "ok" THEN EmptyCache ELSE cache
        /\ UNCHANGED <<signer, pending, app, sync, flow>>

(* Web3Service.approveTask: escrowContract.approveTask(taskId) *)
Web3Service_approveTask ==
    \E taskId \in TaskIds, payoutOk \in BOOLEAN :
        /\ IF signer = ZERO
           THEN /\ lastCall' = Call("approveTask", signer, taskId, 0, "", "NotInitialized")
                /\ sent' = << >>
                /\ UNCHANGED ledger
           ELSE LET out == approveTaskTx(signer, taskId, payoutOk) IN
                /\ Apply(out)
                /\ lastCall' = Call("approveTask", signer, taskId, 0, "", out.err)
                /\ sent' = Send(<< >>, "approveTask", out.err)
        /\ UNCHANGED <<signer, pending, app, view>>

(* Web3Service.autoApproveTask: the same escrowContract.approveTask(taskId), *)
(* signed by whichever wallet is connected.                                  *)
Web3Service_autoApproveTask ==
    \E taskId \in TaskIds, payoutOk \in BOOLEAN :
        /\ IF signer = ZERO
           THEN /\ lastCall' = Call("autoApproveTask", signer, taskId, 0, "", "NotInitialized")
                /\ sent' = << >>
                /\ UNCHANGED ledger
           ELSE LET out == approveTaskTx(signer, taskId, payoutOk) IN
                /\ Apply(out)
                /\ lastCall' = Call("autoApproveTask", signer, taskId, 0, "", out.err)
                /\ sent' = Send(<< >>, "approveTask", out.err)
        /\ UNCHANGED <<signer, pending, app, view>>

(* Web3Service.approveToken(spender, amount) with the escrow as spender *)
Web3Service_approveToken ==
    \E amount \in Amounts, approveOk \in BOOLEAN :
        /\ IF signer = ZERO
           THEN /\ lastCall' = Call("approveToken", signer, 0, amount, "", "NotInitialized")
                /\ sent' = << >>
                /\ UNCHANGED ledger
           ELSE IF ~approveOk
           THEN /\ lastCall' = Call("approveToken", signer, 0, amount, "", "ApproveFailed")
                /\ sent' = Send(<< >>, "approve", "ApproveFailed")
                /\ UNCHANGED ledger
           ELSE /\ Apply(approveTx(signer, amount))
                /\ lastCall' = Call("approveToken", signer, 0, amount, "", "ok")
                /\ sent' = Send(<< >>, "approve", "ok")
        /\ UNCHANGED <<signer, pending, app, view>>

NextClient ==
    \/ Web3Service_connect
    \/ Web3Service_createTask
    \/ Web3Service_createTaskSend
    \/ Web3Service_submitTask
    \/ Web3Service_approveTask
    \/ Web3Service_autoApproveTask

SpecClient == Init /\ [][NextClient]_vars

(* The five write methods of the wallet service. *)
NextWrites ==
    \/ Web3Service_connect
    \/ Web3Service_createTask
    \/ Web3Service_createTaskSend
    \/ Web3Service_approveToken
    \/ Web3Service_submitTask
    \/ Web3Service_approveTask
    \/ Web3Service_autoApproveTask

SpecWrites == Init /\ [][NextWrites]_vars

(* ---------------------- the wallet service's reads --------------------- *)
(* Web3Service with the cache (CACHE_TTL, TASK_BATCH_SIZE, taskBatchPromise). *)
(* JavaScript runs one handler at a time: a call runs up to its first       *)
(* await in one step, and the handlers that a resolved ledger read wakes    *)
(* (Promise.all, the owner's continuation, the joined callers) run in the   *)
(* step of that read.  Date.now() is now, in milliseconds.                  *)

CACHE_TTL == 30000
TASK_BATCH_SIZE == 20

(* bounds of the read path *)
TickMs == 30000
MaxTicks == 2
MaxCalls == 2
MaxAllowCalls == 2
MaxRace == 2
MaxFail == 1
MaxCount == 22

Modes == {"CLIENT", "AGENT"}
KeyUsers == {"u1"}

(* `tasks_${userAddress}_${mode}` and `allowance_${owner}_${spender}` *)
TaskKey(userAddress, mode) == <<"tasks", userAddress, mode>>
AllowanceKey(owner, spender) == <<"allowance", owner, spender>>

Max(a, b) == IF a >= b THEN a ELSE b

(* ethers.formatEther: the exact decimal text of wei / 10^18, one text per *)
(* value; it is never the empty text.                                      *)
FormatEther(wei) == <<"ether", wei>>

(* what checkAllowance returns without a read: "0" *)
ZeroText == <<"0">>

(* the Task object _fetchTaskDetail builds from tasks(taskId) *)
ClientTask(taskId, taskData) ==
    [id |-> taskId, creator |-> taskData.creator, agent |-> taskData.agent,
     amount |-> FormatEther(taskData.amount), description |-> taskData.description,
     status |-> taskData.status, result |-> taskData.result]

(* getCached with >= in place of >: an entry expires at the TTL itself *)
Expired_AtTTL(entry) == now - entry.timestamp >= CACHE_TTL

(* getCached: an entry older than CACHE_TTL is treated as absent *)
Expired(entry) == now - entry.timestamp > CACHE_TTL

Fresh(key) == key \in DOMAIN cache /\ ~Expired(cache[key])

(* getCached deletes the entry it finds expired *)
AfterLookup(key) ==
    IF key \in DOMAIN cache /\ Expired(cache[key])
    THEN [k \in (DOMAIN cache) \ {key} |-> cache[k]]
    ELSE cache

(* setCache(key, data) *)
SetCache(c, key, data) ==
    [k \in (DOMAIN c) \cup {key} |->
        IF k = key THEN [data |-> data, timestamp |-> now] ELSE c[k]]

(* getTasks without `if (this.taskBatchPromise) return this.taskBatchPromise` *)
getTasksPath_NoCoalescing(key) ==
    IF signer = ZERO THEN "notConnected"
    ELSE IF Fresh(key) THEN "cache"
    ELSE "fetch"

(* getTasks before its first await: which way the call goes *)
getTasksPath(key) ==
    IF signer = ZERO THEN "notConnected"
    ELSE IF Fresh(key) THEN "cache"
    ELSE IF taskBatchPromise # NULL THEN "join"
    ELSE "fetch"

(* a limit that lets one more task into the window *)
Limit_OneMore(totalTasks) == Max(0, totalTasks - TASK_BATCH_SIZE - 1)

(* const limit = Math.max(0, totalTasks - this.TASK_BATCH_SIZE) *)
Limit(totalTasks) == Max(0, totalTasks - TASK_BATCH_SIZE)

(* for (let i = totalTasks - 1; i >= limit; i--): slot k reads task total-k *)
SlotId(totalTasks, k) == totalTasks - k

WindowSize(totalTasks) == totalTasks - Limit(totalTasks)

PendingSlot == [state |-> "pending", task |-> ClientTask(0, DefaultTask)]

(* _fetchTaskDetail: the Task, or null when the read fails *)
fetchTaskDetail(taskId, ok) ==
    IF ok THEN [state |-> "ok", task |-> ClientTask(taskId, TaskAt(taskId))]
    ELSE [state |-> "null", task |-> ClientTask(0, DefaultTask)]

RECURSIVE Tasks(_)
Tasks(slots) ==
    IF slots = << >> THEN << >>
    ELSE <<Head(slots).task>> \o Tasks(Tail(slots))

(* a batch that one failed task read empties *)
BatchResult_AllOrNothing(slots) ==
    IF \E k \in DOMAIN slots : slots[k].state = "null" THEN << >>
    ELSE Tasks(slots)

(* fetchedTasks.filter(t => t !== null), in the order of the slots *)
BatchResult(slots) == Tasks(SelectSeq(slots, LAMBDA s : s.state = "ok"))

(* the promise of a settled _fetchTasksBatch: it resolves, never rejects *)
Resolved(data) == [state |-> "resolved", result |-> data]

(* a _fetchTasksBatch without its catch: the failed read rejects *)
CountFailed_Rejects == [state |-> "rejected", result |-> << >>]

(* _fetchTasksBatch whose nextTaskId read failed: catch, return [] *)
CountFailed == Resolved(<< >>)

(* a reference that is cleared only when the batch returned tasks *)
PromiseAfter_KeptOnEmpty(outcome) ==
    IF outcome.result = << >> THEN taskBatchPromise ELSE NULL

(* this.taskBatchPromise = null, once the awaited batch settled *)
PromiseAfter(outcome) == NULL

(* getTasks after the batch: the owner stores what the batch returned *)
CacheAfter(outcome, key) ==
    IF outcome.state = "resolved" THEN SetCache(cache, key, outcome.result) ELSE cache

GetTasksCall(key, how, state, result) ==
    [key |-> key, how |-> how, state |-> state, result |-> result]

(* the tasks of a list that a key's address created (CLIENT) or was given  *)
(* (AGENT)                                                                 *)
OwnTasks(list, key) ==
    SelectSeq(list, LAMBDA t : IF key[3] = "CLIENT" THEN t.creator = key[2]
                                                    ELSE t.agent = key[2])

(* a settle that hands every caller only its own tasks *)
Settle_Filtered(outcome) ==
    /\ taskBatchPromise' = PromiseAfter(outcome)
    /\ fetch' = NoFetch
    /\ cache' = CacheAfter(outcome, calls[fetch.owner].key)
    /\ calls' = [i \in DOMAIN calls |->
                    IF calls[i].state = "pending"
                    THEN [calls[i] EXCEPT !.state = outcome.state,
                                          !.result = OwnTasks(outcome.result,
                                                              calls[i].key)]
                    ELSE calls[i]]

(* The batch settles: the owner clears the reference and stores the        *)
(* result, and every caller waiting on the promise gets its outcome.       *)
Settle(outcome) ==
    /\ taskBatchPromise' = PromiseAfter(outcome)
    /\ fetch' = NoFetch
    /\ cache' = CacheAfter(outcome, calls[fetch.owner].key)
    /\ calls' = [i \in DOMAIN calls |->
                    IF calls[i].state = "pending"
                    THEN [calls[i] EXCEPT !.state = outcome.state,
                                          !.result = outcome.result]
                    ELSE calls[i]]

(* Web3Service.getTasks(userAddress, mode) up to its first await *)
Web3Service_getTasksOf(userAddress, mode) ==
        LET key == TaskKey(userAddress, mode)
            path == getTasksPath(key)
        IN  /\ Len(calls) < MaxCalls
            /\ lastCall' = NoCall
            /\ cache' = IF path = "notConnected" THEN cache ELSE AfterLookup(key)
            /\ calls' = Append(calls,
                    CASE path = "notConnected" -> GetTasksCall(key, path, "resolved", << >>)
                      [] path = "cache" -> GetTasksCall(key, path, "resolved", cache[key].data)
                      [] OTHER -> GetTasksCall(key, path, "pending", << >>))
            /\ IF path = "fetch"
               THEN /\ taskBatchPromise' = "pending"
                    /\ fetch' = [stage |-> "count", owner |-> Len(calls) + 1,
                                 total |-> 0, slots |-> << >>]
                    /\ reads' = [reads EXCEPT !.count = @ + 1]
               ELSE UNCHANGED <<taskBatchPromise, fetch, reads>>
            /\ UNCHANGED <<ledger, client, now, allowCalls, flow>>

(* getTasks of the page's address in either mode *)
Web3Service_getTasks ==
    \E userAddress \in KeyUsers, mode \in Modes :
        Web3Service_getTasksOf(userAddress, mode)

(* getTasks of any address in either mode *)
Web3Service_getTasksAny ==
    \E userAddress \in Users, mode \in Modes :
        Web3Service_getTasksOf(userAddress, mode)

(* the nextTaskId() read of _fetchTasksBatch returns or throws; on success *)
(* one _fetchTaskDetail per window slot is started                         *)
fetchTasksBatch_count ==
    \E ok \in BOOLEAN :
        /\ fetch.stage = "count"
        /\ lastCall' = NoCall
        /\ IF ~ok
           THEN Settle(CountFailed) /\ UNCHANGED reads
           ELSE IF WindowSize(nextTaskId) = 0
           THEN Settle(Resolved(BatchResult(<< >>))) /\ UNCHANGED reads
           ELSE /\ fetch' = [fetch EXCEPT
                                !.stage = "tasks",
                                !.total = nextTaskId,
                                !.slots = [k \in 1..WindowSize(nextTaskId) |-> PendingSlot]]
                /\ reads' = [reads EXCEPT !.task = @ + WindowSize(nextTaskId)]
                /\ UNCHANGED <<taskBatchPromise, cache, calls>>
        /\ UNCHANGED <<ledger, client, now, allowCalls, flow>>

Count(slots, state) == Cardinality({k \in DOMAIN slots : slots[k].state = state})

(* one tasks(i) read returns or throws, in any order within the race bound; *)
(* the last one resolves Promise.all and with it the batch                  *)
fetchTaskDetail_done ==
    \E k \in DOMAIN fetch.slots, ok \in BOOLEAN :
        /\ fetch.stage = "tasks"
        /\ fetch.slots[k].state = "pending"
        /\ Cardinality({j \in 1..(k - 1) : fetch.slots[j].state = "pending"}) < MaxRace
        /\ ok \/ Count(fetch.slots, "null") < MaxFail
        /\ lastCall' = NoCall
        /\ LET slots == [fetch.slots EXCEPT
                            ![k] = fetchTaskDetail(SlotId(fetch.total, k), ok)]
           IN  IF Count(slots, "pending") = 0
               THEN Settle(Resolved(BatchResult(slots)))
               ELSE /\ fetch' = [fetch EXCEPT !.slots = slots]
                    /\ UNCHANGED <<taskBatchPromise, cache, calls>>
        /\ UNCHANGED <<ledger, client, now, reads, allowCalls, flow>>

AllowanceCall(key, how, state, result) ==
    [key |-> key, how |-> how, state |-> state, result |-> result]

(* Web3Service.checkAllowance(owner, spender) up to its await *)
Web3Service_checkAllowance ==
    \E owner \in KeyUsers :
        LET key == AllowanceKey(owner, ESCROW) IN
        /\ Len(allowCalls) < MaxAllowCalls
        /\ lastCall' = NoCall
        /\ IF signer = ZERO
           THEN /\ allowCalls' = Append(allowCalls,
                        AllowanceCall(key, "notConnected", "resolved", ZeroText))
                /\ UNCHANGED <<cache, reads>>
           ELSE IF Fresh(key)
           THEN /\ allowCalls' = Append(allowCalls,
                        AllowanceCall(key, "cache", "resolved", cache[key].data))
                /\ UNCHANGED <<cache, reads>>
           ELSE /\ allowCalls' = Append(allowCalls,
                        AllowanceCall(key, "read", "pending", ZeroText))
                /\ cache' = AfterLookup(key)
                /\ reads' = [reads EXCEPT !.allowance = @ + 1]
        /\ UNCHANGED <<ledger, client, now, taskBatchPromise, fetch, calls, flow>>

(* the allowance(owner, spender) read returns (format, store, return) or   *)
(* throws (return "0", nothing stored)                                     *)
checkAllowance_done ==
    \E i \in DOMAIN allowCalls, ok \in BOOLEAN :
        /\ allowCalls[i].state = "pending"
        /\ lastCall' = NoCall
        /\ LET key == allowCalls[i].key
               result == FormatEther(allowance[key[2]])
           IN  IF ok
               THEN /\ cache' = SetCache(cache, key, result)
                    /\ allowCalls' = [allowCalls EXCEPT ![i].state = "resolved",
                                                        ![i].result = result]
               ELSE /\ allowCalls' = [allowCalls EXCEPT ![i].state = "resolved",
                                                        ![i].how = "failed",
                                                        ![i].result = ZeroText]
                    /\ UNCHANGED cache
        /\ UNCHANGED <<ledger, client, now, taskBatchPromise, fetch, calls, reads, flow>>

(* Web3Service.connect that returns null: no wallet, no accounts, a        *)
(* rejection or an error; clearCache() is not reached                      *)
Web3Service_connectFailed ==
    /\ lastCall' = Call("connect", ZERO, 0, 0, "", "Rejected")
    /\ UNCHANGED <<ledger, client, view>>

(* time passes *)
Tick ==
    /\ now < MaxTicks * TickMs
    /\ now' = now + TickMs
    /\ lastCall' = NoCall
    /\ UNCHANGED <<ledger, client, cache, taskBatchPromise, fetch, calls, reads,
                   allowCalls, flow>>

(* the agent of the newest task submits it, while the service reads *)
Ledger_completeTask ==
    /\ nextTaskId > 0
    /\ LET id == nextTaskId - 1
           out == completeTaskTx(TaskAt(id).agent, id, "r1")
       IN  /\ out.err = "ok"
           /\ Apply(out)
           /\ lastCall' = NoCall
    /\ UNCHANGED <<client, view>>

(* an owner changes the allowance of the escrow, while the service reads *)
Ledger_approve ==
    \E value \in {MaxAmount} :
        /\ allowance["u1"] # value
        /\ Apply(approveTx("u1", value))
        /\ lastCall' = NoCall
        /\ UNCHANGED <<client, view>>

(* a ledger that holds n tasks of creator u1 for agent u2 *)
LedgerWith(n) ==
    /\ nextTaskId = n
    /\ tasks = [i \in 0..(n - 1) |-> Task("u1", "u2", MNEE, 1, "d", OPEN, "")]
    /\ balances = [a \in Assets |-> [h \in Addr |->
                        IF h \in Users THEN InitBal
                        ELSE IF h = ESCROW /\ a = MNEE THEN n ELSE 0]]
    /\ allowance = [u \in Users |-> 0]

InitSync ==
    /\ \E n \in {0, MaxTasks} : LedgerWith(n)
    /\ signer = ZERO
    /\ pending = NoPending
    /\ lastCall = NoCall
    /\ InitView

NextSync ==
    \/ Web3Service_connect /\ signer' \in KeyUsers
    \/ Web3Service_connectFailed
    \/ Web3Service_getTasks
    \/ fetchTasksBatch_count
    \/ fetchTaskDetail_done
    \/ Web3Service_checkAllowance
    \/ checkAllowance_done
    \/ Tick
    \/ Ledger_completeTask
    \/ Ledger_approve

SpecSync == InitSync /\ [][NextSync]_vars

(* The cached task list next to the write methods, on a ledger that holds  *)
(* one task less than MaxTasks.                                            *)
InitStale ==
    /\ LedgerWith(MaxTasks - 1)
    /\ signer = ZERO
    /\ pending = NoPending
    /\ lastCall = NoCall
    /\ InitView

(* the calls of this specification: one task-list key; u1 creates tasks of *)
(* amount 1 for u2; task 0 is submitted with one result text and approved *)
Stale_getTasks ==
    Web3Service_getTasks /\ calls'[Len(calls')].key = TaskKey("u1", "CLIENT")
Stale_createTask ==
    /\ Web3Service_createTask
    /\ lastCall'.amount = 1 /\ pending'.agent \in {ZERO, "u2"} /\ signer # "u2"
Stale_approveToken == Web3Service_approveToken /\ lastCall'.amount = MaxAmount
Stale_submitTask ==
    Web3Service_submitTask /\ lastCall'.result = "r1" /\ lastCall'.id = 0
Stale_approveTask == Web3Service_approveTask /\ lastCall'.id = 0
Stale_autoApproveTask == Web3Service_autoApproveTask /\ lastCall'.id = 0

NextStale ==
    \/ Web3Service_connect
    \/ Stale_getTasks
    \/ fetchTasksBatch_count
    \/ fetchTaskDetail_done
    \/ Tick
    \/ Stale_createTask
    \/ Web3Service_createTaskSend
    \/ Stale_approveToken
    \/ Stale_submitTask
    \/ Stale_approveTask
    \/ Stale_autoApproveTask

SpecStale == InitStale /\ [][NextStale]_vars

(* The window fetch alone: one caller on a connected service, ledgers of   *)
(* up to MaxCount tasks.                                                   *)
InitWindow ==
    /\ \E n \in 0..MaxCount : LedgerWith(n)
    /\ signer = "u1"
    /\ pending = NoPending
    /\ lastCall = NoCall
    /\ InitView

NextWindow ==
    \/ Web3Service_getTasks /\ calls = << >>
    \/ fetchTasksBatch_count
    \/ fetchTaskDetail_done

SpecWindow == InitWindow /\ [][NextWindow]_vars

(* ------------------- the submission flow of a task card ---------------- *)
(* TaskCard.handleSubmit: wallet check, submitTask, evaluateTaskCompletion, *)
(* autoApproveTask; one step per await that reaches the ledger or the AI.   *)

(* a JSON boolean field as the answer carries it, or the field missing *)
Bool3 == {"true", "false", "undefined"}
Confidences == {-1, 80, 81, 101}

Answer(kind, isApproved, confidence, autoApprove) ==
    [kind |-> kind, isApproved |-> isApproved, confidence |-> confidence,
     autoApprove |-> autoApprove]

(* What the AI call can do: reject ("throws"), answer text that JSON.parse  *)
(* rejects ("garbage"), answer the JSON null ("null"), or answer an object  *)
(* whose fields may be missing and whose confidence may not be a number     *)
(* (no text at all parses as the object {}).                                *)
Answers ==
    {Answer(kind, "undefined", [isNumber |-> FALSE, value |-> 0], "undefined") :
        kind \in {"throws", "garbage", "null"}}
    \cup {Answer("json", isApproved, confidence, autoApprove) :
            isApproved \in {"true", "false"},
            confidence \in ([isNumber : {TRUE}, value : Confidences]
                            \cup {[isNumber |-> FALSE, value |-> 0]}),
            autoApprove \in Bool3}
    \cup {Answer("json", "undefined", [isNumber |-> FALSE, value |-> 0], "undefined")}

Min(a, b) == IF a <= b THEN a ELSE b

Evaluation(isApproved, confidence, autoApprove) ==
    [isApproved |-> isApproved, confidence |-> confidence, autoApprove |-> autoApprove]

(* an evaluation that approves when the AI call fails *)
evaluateTaskCompletion_ApprovesOnError(answer) ==
    IF answer.kind \in {"throws", "garbage", "null"}
    THEN Evaluation("true", 100, "true")
    ELSE Evaluation(answer.isApproved,
                    Min(100, Max(0, IF answer.confidence.isNumber
                                    THEN answer.confidence.value ELSE 0)),
                    answer.autoApprove)

(* evaluateTaskCompletion: both catch blocks return the same defaults; a    *)
(* parsed object keeps its fields, its confidence made a number in 0..100   *)
evaluateTaskCompletion(answer) ==
    IF answer.kind \in {"throws", "garbage", "null"}
    THEN Evaluation("false", 0, "false")
    ELSE Evaluation(answer.isApproved,
                    Min(100, Max(0, IF answer.confidence.isNumber
                                    THEN answer.confidence.value ELSE 0)),
                    answer.autoApprove)

(* an automatic approval from a confidence of 80 on *)
AutoApproves_AtEighty(evaluation) ==
    evaluation.autoApprove = "true" /\ evaluation.confidence >= 80

(* if (eval_result.autoApprove && eval_result.confidence > 80) *)
AutoApproves(evaluation) == evaluation.autoApprove = "true" /\ evaluation.confidence > 80

(* web3Service.getAddress() *)
getAddress == IF signer = ZERO THEN "0xMockUserWalletAddress" ELSE signer

Flow(pc, id, result, answer, evaluation) ==
    [pc |-> pc, id |-> id, result |-> result, answer |-> answer,
     evaluation |-> evaluation]

FlowEnded == flow.pc \in {"idle", "mismatch", "review", "approved", "failed"}

(* handleSubmit on the card of a task, up to `await submitTask` *)
TaskCard_handleSubmit ==
    \E id \in 0..(nextTaskId - 1), resultInput \in Results :
        /\ FlowEnded
        /\ flow' = Flow(IF getAddress # TaskAt(id).agent THEN "mismatch" ELSE "submit",
                        id, resultInput, NoAnswer, NoEvaluation)
        /\ lastCall' = NoCall
        /\ UNCHANGED <<ledger, client, sync, cache>>

(* web3Service.submitTask returns or throws (the wallet may refuse to sign  *)
(* the transaction); the catch of handleSubmit alerts "Failed to submit    *)
(* task to blockchain" and the flow ends without onRefresh                 *)
TaskCard_submitTask ==
    \E walletOk \in BOOLEAN :
        /\ flow.pc = "submit"
        /\ LET out == IF signer = ZERO THEN Revert("NotInitialized")
                      ELSE IF ~walletOk THEN Revert("Rejected")
                      ELSE completeTaskTx(signer, flow.id, flow.result)
           IN  /\ Apply(out)
               /\ lastCall' = Call("completeTask", signer, flow.id, 0, flow.result,
                                   out.err)
               /\ sent' = IF signer = ZERO THEN << >>
                          ELSE Send(<< >>, "completeTask", out.err)
               /\ flow' = [flow EXCEPT !.pc = IF out.err = "ok" THEN "evaluate"
                                                ELSE "failed"]
        /\ UNCHANGED <<signer, pending, app, sync, cache>>

(* evaluateTaskCompletion resolves and handleSubmit branches on it *)
TaskCard_evaluate ==
    \E answer \in Answers :
        /\ flow.pc = "evaluate"
        /\ LET evaluation == evaluateTaskCompletion(answer) IN
           flow' = [flow EXCEPT !.answer = answer,
                                !.evaluation = evaluation,
                                !.pc = IF AutoApproves(evaluation)
                                       THEN "autoApprove" ELSE "review"]
        /\ lastCall' = NoCall
        /\ UNCHANGED <<ledger, client, sync, cache>>

(* web3Service.autoApproveTask returns, and handleSubmit goes on to         *)
(* onRefresh, or throws into the same catch as submitTask                  *)
TaskCard_autoApproveTask ==
    \E payoutOk \in BOOLEAN :
        /\ flow.pc = "autoApprove"
        /\ LET out == IF signer = ZERO THEN Revert("NotInitialized")
                      ELSE approveTaskTx(signer, flow.id, payoutOk)
           IN  /\ Apply(out)
               /\ lastCall' = Call("autoApproveTask", signer, flow.id, 0, "", out.err)
               /\ sent' = IF signer = ZERO THEN << >>
                          ELSE Send(<< >>, "approveTask", out.err)
               /\ flow' = [flow EXCEPT !.pc = IF out.err = "ok" THEN "approved"
                                                ELSE "failed"]
        /\ UNCHANGED <<signer, pending, app, sync, cache>>

(* a ledger of 1..MaxTasks open tasks, each of some creator for some agent *)
InitSubmit ==
    /\ \E n \in 1..MaxTasks :
        \E creators \in [0..(n - 1) -> Users], agents \in [0..(n - 1) -> Users] :
            /\ nextTaskId = n
            /\ tasks = [i \in 0..(n - 1) |->
                           Task(creators[i], agents[i], MNEE, 1, "d", OPEN, "")]
            /\ balances = [a \in Assets |-> [h \in Addr |->
                               IF h \in Users THEN InitBal
                               ELSE IF h = ESCROW /\ a = MNEE THEN n ELSE 0]]
    /\ allowance = [u \in Users |-> 0]
    /\ signer = ZERO
    /\ pending = NoPending
    /\ lastCall = NoCall
    /\ InitView

NextSubmit ==
    \/ Web3Service_connect
    \/ TaskCard_handleSubmit
    \/ TaskCard_submitTask
    \/ TaskCard_evaluate
    \/ TaskCard_autoApproveTask
    \/ Web3Service_approveTask

SpecSubmit == InitSubmit /\ [][NextSubmit]_vars

(* The task list read for any address and mode, on a ledger of tasks of    *)
(* any creators and agents.                                                *)
NextCaller ==
    \/ Web3Service_connect
    \/ Web3Service_getTasksAny
    \/ fetchTasksBatch_count
    \/ fetchTaskDetail_done

SpecCaller == InitSubmit /\ [][NextCaller]_vars

(* ------------------------------ the page ------------------------------- *)
(* App's mount effect (dependencies []) runs once per page load. It calls  *)
(* web3Service.onTaskCompleted, which returns without subscribing while    *)
(* the service holds no escrow contract, that is, while it is unconnected. *)
App_mount ==
    /\ ~app.mounted
    /\ app' = [app EXCEPT !.mounted = TRUE, !.listening = (signer # ZERO)]
    /\ lastCall' = NoCall
    /\ UNCHANGED <<ledger, signer, pending, sent, view>>

(* App.connectWallet, the handler of the Connect Wallet button and the     *)
(* only caller of web3Service.connect.                                     *)
App_connectWallet ==
    /\ app.mounted
    /\ Web3Service_connect

(* accountsChanged or chainChanged: window.location.reload() starts the    *)
(* page, and with it the service, afresh.                                  *)
App_reload ==
    /\ app.mounted
    /\ signer # ZERO
    /\ app' = NoApp
    /\ signer' = ZERO
    /\ pending' = NoPending
    /\ sent' = << >>
    /\ cache' = EmptyCache
    /\ lastCall' = NoCall
    /\ UNCHANGED <<ledger, sync, flow>>

InitEvents ==
    /\ LedgerWith(MaxTasks)
    /\ signer = ZERO
    /\ pending = NoPending
    /\ lastCall = NoCall
    /\ InitView

(* The page and its wallet service, and the ledger called by any account. *)
NextEvents ==
    \/ App_mount
    \/ App_connectWallet
    \/ App_reload
    \/ Web3Service_submitTask
    \/ Web3Service_approveTask
    \/ completeTask
    \/ approveTask

SpecEvents == InitEvents /\ [][NextEvents]_vars

(* ======================= properties of the ledger ====================== *)

RECURSIVE SumOver(_, _)
SumOver(S, f) ==
    IF S = {} THEN 0
    ELSE LET x == CHOOSE y \in S : TRUE IN f[x] + SumOver(S \ {x}, f)

(* All units of an asset, over every holder. *)
TotalOf(b, asset) == SumOver(Addr, b[asset])

(* The amounts of an asset that the tasks still in custody lock. *)
Locked(t, asset) ==
    LET held == {id \in DOMAIN t : t[id].token = asset /\ t[id].status \in {OPEN, SUBMITTED}}
    IN  SumOver(held, [id \in held |-> t[id].amount])

Approvals == {"approveTask", "autoApproveTask"}
Creations == {"createTask", "createTaskWithToken"}

(* C1: a successful approveTask on a SUBMITTED task makes it COMPLETED,     *)
(* credits the agent's balance of the task's token with exactly the amount, *)
(* debits the escrow's by exactly the amount, changes no other balance of   *)
(* any asset and keeps the total of every asset.                            *)
C1_ApprovePaysAgentExactly ==
    [][ (lastCall'.op = "approveTask" /\ lastCall'.err = "ok"
            /\ TaskAt(lastCall'.id).status = SUBMITTED)
        => LET t == TaskAt(lastCall'.id) IN
            /\ TaskIn(tasks', lastCall'.id).status = COMPLETED
            /\ balances'[t.token][t.agent] = balances[t.token][t.agent] + t.amount
            /\ balances'[t.token][ESCROW] = balances[t.token][ESCROW] - t.amount
            /\ \A a \in Assets, h \in Addr :
                (a # t.token \/ h \notin {t.agent, ESCROW})
                    => balances'[a][h] = balances[a][h]
            /\ \A a \in Assets : TotalOf(balances', a) = TotalOf(balances, a)
      ]_vars

C1_Witness ==
    /\ lastCall.op = "approveTask"
    /\ lastCall.err = "ok"
    /\ TaskAt(lastCall.id).status = COMPLETED
    /\ TaskAt(lastCall.id).agent # TaskAt(lastCall.id).creator
    /\ balances[TaskAt(lastCall.id).token][TaskAt(lastCall.id).agent]
         = InitBal + TaskAt(lastCall.id).amount

(* C2: in every reachable state the escrow's balance of each asset, the     *)
(* native one included, is the sum of the amounts of the tasks of that      *)
(* asset whose status is OPEN or SUBMITTED.                                 *)
C2_EscrowHoldsOpenAndSubmitted ==
    \A a \in Assets : balances[a][ESCROW] = Locked(tasks, a)

C2_Witness ==
    /\ nextTaskId = 2
    /\ tasks[0].token = tasks[1].token
    /\ tasks[0].status = COMPLETED
    /\ tasks[1].status = SUBMITTED
    /\ balances[tasks[1].token][ESCROW] = tasks[1].amount

(* C3: a task's status only ever stays, moves OPEN -> SUBMITTED or moves    *)
(* SUBMITTED -> COMPLETED; DISPUTED and CANCELLED are never reached.        *)
C3_StatusMonotonic ==
    [][ \A id \in TaskIds :
          LET old == TaskIn(tasks, id).status
              new == TaskIn(tasks', id).status
          IN  /\ new \notin {DISPUTED, CANCELLED}
              /\ \/ new = old
                 \/ old = OPEN /\ new = SUBMITTED
                 \/ old = SUBMITTED /\ new = COMPLETED
      ]_vars

C3_Witness ==
    /\ lastCall.op = "completeTask"
    /\ lastCall.err = "InvalidState"
    /\ TaskAt(lastCall.id).status = COMPLETED
    /\ lastCall.sender = TaskAt(lastCall.id).agent

(* C4: an approveTask sent by an address that is not the task's creator,    *)
(* through Web3Service.approveTask or Web3Service.autoApproveTask with      *)
(* whichever wallet is connected, fails as Unauthorized and changes neither *)
(* a task nor a balance; an approval that succeeds was sent by the creator. *)
C4_OnlyCreatorApproves ==
    [][ (lastCall'.op \in Approvals /\ lastCall'.sender \in Users)
        => /\ lastCall'.sender # TaskAt(lastCall'.id).creator
                => /\ lastCall'.err = "Unauthorized"
                   /\ UNCHANGED <<tasks, balances>>
           /\ lastCall'.err = "ok"
                => lastCall'.sender = TaskAt(lastCall'.id).creator
      ]_vars

C4_Witness ==
    /\ lastCall.op = "autoApproveTask"
    /\ lastCall.err = "Unauthorized"
    /\ lastCall.sender = signer
    /\ TaskAt(lastCall.id).status = SUBMITTED
    /\ TaskAt(lastCall.id).agent = lastCall.sender
    /\ TaskAt(lastCall.id).creator # lastCall.sender

(* C5 as stated: approveTask on a task that is not SUBMITTED fails as       *)
(* InvalidState and changes nothing.                                        *)
C5_AsStated ==
    [][ (lastCall'.op = "approveTask" /\ TaskAt(lastCall'.id).status # SUBMITTED)
        => /\ lastCall'.err = "InvalidState"
           /\ UNCHANGED <<tasks, balances>>
      ]_vars

(* C5 as amended: approveTask on a task that is not SUBMITTED (OPEN,        *)
(* COMPLETED or never created) fails and changes no balance and no task: as *)
(* InvalidState when the caller is the task's creator, as Unauthorized when *)
(* not, which is every caller of an id that was never created.              *)
C5_NotSubmittedFails ==
    [][ (lastCall'.op = "approveTask" /\ TaskAt(lastCall'.id).status # SUBMITTED)
        => /\ lastCall'.err =
                IF lastCall'.sender = TaskAt(lastCall'.id).creator
                THEN "InvalidState" ELSE "Unauthorized"
           /\ lastCall'.id \notin DOMAIN tasks => lastCall'.err = "Unauthorized"
           /\ UNCHANGED <<tasks, balances>>
      ]_vars

C5_Witness ==
    /\ lastCall.op = "approveTask"
    /\ lastCall.err = "InvalidState"
    /\ TaskAt(lastCall.id).status = COMPLETED
    /\ balances[TaskAt(lastCall.id).token][ESCROW] >= TaskAt(lastCall.id).amount

(* C6: completeTask sent by an address that is not the task's agent fails   *)
(* as Unauthorized and leaves every task's status and result unchanged.     *)
C6_OnlyAgentCompletes ==
    [][ (lastCall'.op = "completeTask"
            /\ lastCall'.sender # TaskAt(lastCall'.id).agent)
        => /\ lastCall'.err = "Unauthorized"
           /\ UNCHANGED tasks
      ]_vars

C6_Witness ==
    /\ lastCall.op = "completeTask"
    /\ lastCall.err = "Unauthorized"
    /\ lastCall.id \in DOMAIN tasks
    /\ tasks[lastCall.id].status = OPEN
    /\ tasks[lastCall.id].creator = lastCall.sender
    /\ tasks[lastCall.id].result = ""

(* C7: completeTask sent by the task's agent succeeds exactly when the task *)
(* is OPEN, then storing the result and moving the task to SUBMITTED, and   *)
(* fails as InvalidState otherwise, changing no task; a task's result       *)
(* changes only in the step that moves it from OPEN to SUBMITTED, and an    *)
(* OPEN task has the empty result.                                          *)
C7_SubmitOnce ==
    [][ /\ (lastCall'.op = "completeTask"
                /\ lastCall'.sender = TaskAt(lastCall'.id).agent)
            => IF TaskAt(lastCall'.id).status = OPEN
               THEN /\ lastCall'.err = "ok"
                    /\ TaskIn(tasks', lastCall'.id).result = lastCall'.result
                    /\ TaskIn(tasks', lastCall'.id).status = SUBMITTED
               ELSE /\ lastCall'.err = "InvalidState"
                    /\ UNCHANGED tasks
        /\ \A id \in DOMAIN tasks :
            TaskIn(tasks', id).result # tasks[id].result
                => tasks[id].status = OPEN /\ TaskIn(tasks', id).status = SUBMITTED
        /\ \A id \in DOMAIN tasks' :
            tasks'[id].status = OPEN => tasks'[id].result = ""
      ]_vars

C7_Witness ==
    /\ lastCall.op = "completeTask"
    /\ lastCall.err = "InvalidState"
    /\ lastCall.sender = TaskAt(lastCall.id).agent
    /\ TaskAt(lastCall.id).status = SUBMITTED
    /\ TaskAt(lastCall.id).result # lastCall.result

(* C8: every task that exists has amount > 0; a creation, native or in a    *)
(* token, with amount <= 0 fails, stores no task, keeps nextTaskId and      *)
(* moves no funds.                                                          *)
C8_AmountPositive ==
    [][ /\ (lastCall'.op \in Creations /\ lastCall'.amount <= 0)
            => /\ lastCall'.err # "ok"
               /\ UNCHANGED <<nextTaskId, tasks, balances>>
        /\ \A id \in DOMAIN tasks' : tasks'[id].amount > 0
      ]_vars

C8_Witness ==
    /\ lastCall.op = "createTaskWithToken"
    /\ lastCall.amount = 0
    /\ lastCall.err = "InvalidAmount"
    /\ allowance[lastCall.sender] > 0
    /\ nextTaskId = 1

(* C9: a successful creation stores the new task, OPEN and with the empty   *)
(* result, under the id nextTaskId had before the call, keeps every other   *)
(* task and adds exactly 1 to nextTaskId; any other step keeps nextTaskId;  *)
(* the tasks that exist are exactly the ids 0..nextTaskId-1.                *)
C9_SequentialIds ==
    [][ /\ IF lastCall'.op \in Creations /\ lastCall'.err = "ok"
           THEN /\ lastCall'.id = nextTaskId
                /\ nextTaskId' = nextTaskId + 1
                /\ nextTaskId \notin DOMAIN tasks
                /\ DOMAIN tasks' = DOMAIN tasks \cup {nextTaskId}
                /\ tasks'[nextTaskId].status = OPEN
                /\ tasks'[nextTaskId].result = ""
                /\ tasks'[nextTaskId].creator = lastCall'.sender
                /\ tasks'[nextTaskId].amount = lastCall'.amount
                /\ \A id \in DOMAIN tasks : tasks'[id] = tasks[id]
           ELSE nextTaskId' = nextTaskId /\ DOMAIN tasks' = DOMAIN tasks
        /\ DOMAIN tasks' = 0..(nextTaskId' - 1)
      ]_vars

C9_Witness ==
    /\ nextTaskId = 2
    /\ DOMAIN tasks = {0, 1}
    /\ lastCall.op \in Creations
    /\ lastCall.err = "ok"
    /\ lastCall.id = 1
    /\ tasks[0].status = SUBMITTED
    /\ tasks[1].status = OPEN

(* C10: an approveTask whose payout fails ends as a failure with no task    *)
(* and no balance changed, the task still SUBMITTED; and whenever a task    *)
(* becomes COMPLETED, the same step moves its amount from the escrow to its *)
(* agent.                                                                   *)
C10_NoCompletionWithoutPayout ==
    [][ /\ (lastCall'.op = "approveTask" /\ lastCall'.err = "TransferFailed")
            => /\ UNCHANGED <<tasks, balances>>
               /\ TaskAt(lastCall'.id).status = SUBMITTED
        /\ \A id \in DOMAIN tasks :
            (tasks[id].status # COMPLETED /\ TaskIn(tasks', id).status = COMPLETED)
                => /\ balances'[tasks[id].token][ESCROW]
                        = balances[tasks[id].token][ESCROW] - tasks[id].amount
                   /\ balances'[tasks[id].token][tasks[id].agent]
                        = balances[tasks[id].token][tasks[id].agent] + tasks[id].amount
      ]_vars

C10_Witness ==
    /\ lastCall.op = "approveTask"
    /\ lastCall.err = "TransferFailed"
    /\ TaskAt(lastCall.id).status = SUBMITTED
    /\ balances[TaskAt(lastCall.id).token][ESCROW] >= TaskAt(lastCall.id).amount


(* ================= properties of the wallet service's reads ============ *)

(* the step is a call of getTasks; NewCall is the call it adds *)
GetTasksStep == Len(calls') = Len(calls) + 1
NewCall == calls'[Len(calls')]
Waiting == {i \in DOMAIN calls : calls[i].state = "pending"}

(* the step settles the window fetch in flight *)
SettleStep == taskBatchPromise # NULL /\ taskBatchPromise' = NULL

(* C11: a getTasks call issued while another getTasks call is unresolved,  *)
(* with no valid cache entry for its key, issues no ledger read and waits  *)
(* on the fetch in flight; one fetch in flight issues one nextTaskId read  *)
(* and then one tasks(i) read per window slot, once; when it settles all   *)
(* the waiting callers get the identical result.                           *)
C11_ConcurrentCallsShareOneRead ==
    [][ /\ (GetTasksStep /\ Waiting # {} /\ ~Fresh(NewCall.key))
            => /\ reads' = reads
               /\ NewCall.how = "join"
               /\ NewCall.state = "pending"
        /\ taskBatchPromise # NULL => reads'.count = reads.count
        /\ (fetch.stage = "count" /\ fetch'.stage = "tasks")
            => reads'.task = reads.task + WindowSize(nextTaskId)
        /\ ~(fetch.stage = "count" /\ fetch'.stage = "tasks")
            => reads'.task = reads.task
        /\ SettleStep
            => \A i, j \in Waiting :
                  /\ calls'[i].state = "resolved"
                  /\ calls'[i].result = calls'[j].result
      ]_vars

C11_Witness ==
    /\ Len(calls) = 2
    /\ calls[1].how = "fetch" /\ calls[2].how = "join"
    /\ calls[1].state = "resolved" /\ calls[2].state = "resolved"
    /\ calls[1].result = calls[2].result
    /\ Len(calls[1].result) = MaxTasks
    /\ reads.count = 1 /\ reads.task = MaxTasks


(* the step is a call of checkAllowance; NewAllowCall is the call it adds *)
AllowanceStep == Len(allowCalls') = Len(allowCalls) + 1
NewAllowCall == allowCalls'[Len(allowCalls')]

(* the step is a connect() that succeeded *)
ConnectStep == lastCall'.op = "connect" /\ lastCall'.err = "ok"

(* the cache holds an entry for the key that was stored at most TTL ago *)
Young(key) == key \in DOMAIN cache /\ now - cache[key].timestamp <= CACHE_TTL

Fetched == calls'[fetch.owner].result
FetchedIds == {Fetched[j].id : j \in DOMAIN Fetched}

(* C13: the list of a window fetch that read nextTaskId = n holds only ids *)
(* of max(0, n - 20) .. n - 1, at most 20 of them, in strictly descending  *)
(* order (so each at most once), in whatever order the task reads settle.  *)
C13_WindowDescending ==
    [][ SettleStep =>
          /\ Len(Fetched) <= TASK_BATCH_SIZE
          /\ \A j \in DOMAIN Fetched :
                /\ Fetched[j].id >= fetch.total - TASK_BATCH_SIZE
                /\ Fetched[j].id >= 0
                /\ Fetched[j].id <= fetch.total - 1
          /\ \A j \in 1..(Len(Fetched) - 1) : Fetched[j].id > Fetched[j + 1].id
      ]_vars

(* a full window of a ledger with more than 20 tasks *)
C13_Witness ==
    /\ nextTaskId = MaxCount
    /\ Len(calls) = 1 /\ calls[1].state = "resolved" /\ calls[1].how = "fetch"
    /\ Len(calls[1].result) = TASK_BATCH_SIZE
    /\ calls[1].result[1].id = MaxCount - 1
    /\ calls[1].result[TASK_BATCH_SIZE].id = MaxCount - TASK_BATCH_SIZE

(* C14: when the count read succeeded and task reads failed, the list has  *)
(* exactly the tasks whose reads succeeded, as the ledger holds them and   *)
(* in descending order; the call resolves, and its list is not emptied.    *)
C14_FailedReadsDropped ==
    [][ (SettleStep /\ fetch.stage = "tasks") =>
          /\ calls'[fetch.owner].state = "resolved"
          /\ \A k \in DOMAIN fetch.slots :
                /\ fetch.slots[k].state = "ok" =>
                      /\ SlotId(fetch.total, k) \in FetchedIds
                      /\ fetch.slots[k].task \in {Fetched[j] : j \in DOMAIN Fetched}
                /\ fetch.slots[k].state = "null" =>
                      SlotId(fetch.total, k) \notin FetchedIds
          /\ Len(Fetched) >= Count(fetch.slots, "ok")
          /\ Len(Fetched) <= Count(fetch.slots, "ok") + 1
          /\ \A j \in DOMAIN Fetched :
                Fetched[j] = ClientTask(Fetched[j].id, TaskAt(Fetched[j].id))
          /\ \A j \in 1..(Len(Fetched) - 1) : Fetched[j].id > Fetched[j + 1].id
      ]_vars

(* a window of 20 slots of which the read of the second newest task failed *)
C14_Witness ==
    /\ nextTaskId = MaxCount
    /\ Len(calls) = 1 /\ calls[1].state = "resolved" /\ calls[1].how = "fetch"
    /\ Len(calls[1].result) = TASK_BATCH_SIZE - 1
    /\ calls[1].result[1].id = MaxCount - 1
    /\ calls[1].result[2].id = MaxCount - 3


(* C15: no getTasks call is ever rejected; a call on a service that is not *)
(* connected resolves at once to the empty list, and when the fetch ends   *)
(* at the nextTaskId read (the read failed, or the ledger has no task)     *)
(* every waiting caller resolves to the empty list.                        *)
C15_GetTasksNeverRejects ==
    [][ /\ \A i \in DOMAIN calls' : calls'[i].state \in {"pending", "resolved"}
        /\ (GetTasksStep /\ signer = ZERO)
            => /\ NewCall.state = "resolved" /\ NewCall.result = << >>
               /\ reads' = reads
        /\ (SettleStep /\ fetch.stage = "count")
            => \A i \in Waiting :
                  calls'[i].state = "resolved" /\ calls'[i].result = << >>
      ]_vars

(* one call before connecting, one whose nextTaskId read failed on a       *)
(* ledger that holds tasks                                                 *)
C15_Witness ==
    /\ Len(calls) = 2
    /\ calls[1].how = "notConnected" /\ calls[1].state = "resolved"
    /\ calls[1].result = << >>
    /\ calls[2].how = "fetch" /\ calls[2].state = "resolved"
    /\ calls[2].result = << >>
    /\ nextTaskId = MaxTasks /\ reads.count = 1 /\ reads.task = 0


(* the step ends a fetch whose nextTaskId read failed: a successful read   *)
(* of a ledger that holds tasks starts the task reads instead              *)
CountFailedStep == SettleStep /\ fetch.stage = "count" /\ nextTaskId > 0

(* the step resolves a checkAllowance call whose read failed *)
AllowanceFailedStep ==
    \E i \in DOMAIN allowCalls :
        allowCalls[i].state = "pending" /\ allowCalls'[i].how = "failed"

(* C16 as stated: a failed read behind getTasks or checkAllowance stores   *)
(* nothing in the cache.                                                   *)
C16_AsStated ==
    [][ (CountFailedStep \/ AllowanceFailedStep) => cache' = cache ]_vars

(* the empty list of a failed nextTaskId read was stored and then answered *)
(* the next call for the key from the cache, on a ledger that holds tasks  *)
C16_FailureServedFromCache ==
    /\ nextTaskId = MaxTasks
    /\ Len(calls) = 2 /\ calls[1].key = calls[2].key
    /\ calls[1].how = "fetch" /\ calls[1].result = << >>
    /\ calls[2].how = "cache" /\ calls[2].result = << >>
    /\ reads.count = 1 /\ reads.task = 0


(* the step is a connect() that returned null *)
ConnectFailedStep == lastCall'.op = "connect" /\ lastCall'.err # "ok"

(* C17: a successful connect() leaves the cache with no entry at all, task *)
(* lists and allowances alike; a connect() that returns null leaves the    *)
(* cache as it was.                                                        *)
C17_ConnectClearsCache ==
    [][ /\ ConnectStep => DOMAIN cache' = {}
        /\ ConnectFailedStep => cache' = cache
      ]_vars

(* a task list and an allowance were stored, never looked up again, and    *)
(* are gone after a connect()                                              *)
C17_Witness ==
    /\ lastCall.op = "connect" /\ lastCall.err = "ok"
    /\ Len(calls) = 1 /\ calls[1].how = "fetch" /\ calls[1].state = "resolved"
    /\ Len(allowCalls) = 1 /\ allowCalls[1].how = "read"
    /\ allowCalls[1].state = "resolved"
    /\ DOMAIN cache = {}

(* C18: whenever no window fetch is outstanding taskBatchPromise is null,  *)
(* whether the fetch ended with tasks, with an empty list or at a failed   *)
(* read; so a getTasks call on a connected service that finds no valid     *)
(* cache entry and no fetch outstanding starts a new ledger read.          *)
C18_PromiseClearedOnSettle ==
    /\ [](fetch.stage = "idle" => taskBatchPromise = NULL)
    /\ [][ /\ SettleStep => fetch'.stage = "idle"
           /\ (GetTasksStep /\ signer # ZERO /\ ~Young(NewCall.key)
                  /\ fetch.stage = "idle")
               => /\ NewCall.how = "fetch"
                  /\ reads'.count = reads.count + 1
         ]_vars

(* a fetch that ended at a failed nextTaskId read, and a later call that   *)
(* read the ledger again and got its tasks                                 *)
C18_Witness ==
    /\ nextTaskId = MaxTasks
    /\ Len(calls) = 2
    /\ calls[1].how = "fetch" /\ calls[1].state = "resolved"
    /\ calls[1].result = << >>
    /\ calls[2].how = "fetch" /\ calls[2].state = "resolved"
    /\ Len(calls[2].result) = MaxTasks
    /\ reads.count = 2
    /\ taskBatchPromise = NULL


(* C27: the escrow's balance of an asset decreases only in a successful    *)
(* approveTask of the creator on a SUBMITTED task of that asset, by the    *)
(* task's amount, which the task's agent receives; no account's balance    *)
(* ever increases otherwise, so nothing returns to a creator who is not    *)
(* the agent; and an OPEN task stays as it is, its amount held by the      *)
(* escrow, in every step that is not its agent's successful completeTask.  *)
C27_FundsLeaveOnlyToAgent ==
    [][ /\ \A a \in Assets :
            balances'[a][ESCROW] < balances[a][ESCROW]
                => /\ lastCall'.op = "approveTask" /\ lastCall'.err = "ok"
                   /\ LET t == TaskAt(lastCall'.id) IN
                        /\ t.token = a
                        /\ t.status = SUBMITTED
                        /\ lastCall'.sender = t.creator
                        /\ balances'[a][ESCROW] = balances[a][ESCROW] - t.amount
                        /\ balances'[a][t.agent] = balances[a][t.agent] + t.amount
        /\ \A a \in Assets, h \in Addr \ {ESCROW} :
            balances'[a][h] > balances[a][h]
                => /\ lastCall'.op = "approveTask" /\ lastCall'.err = "ok"
                   /\ h = TaskAt(lastCall'.id).agent
                   /\ a = TaskAt(lastCall'.id).token
        /\ \A id \in DOMAIN tasks :
            (tasks[id].status = OPEN
                /\ ~(lastCall'.op = "completeTask" /\ lastCall'.err = "ok"
                        /\ lastCall'.id = id /\ lastCall'.sender = tasks[id].agent))
                => /\ tasks'[id] = tasks[id]
                   /\ balances'[tasks[id].token][ESCROW] >= tasks[id].amount
      ]_vars

(* task 1 was submitted and paid out to its agent while task 0, never      *)
(* submitted, is still OPEN with its amount in the escrow; the creator got *)
(* nothing back                                                            *)
C27_Witness ==
    /\ nextTaskId = 2
    /\ tasks[0].status = OPEN /\ tasks[1].status = COMPLETED
    /\ tasks[0].token = MNEE /\ tasks[1].token = MNEE
    /\ tasks[0].creator = "u1" /\ tasks[1].creator = "u1"
    /\ tasks[0].agent = "u2" /\ tasks[1].agent = "u2"
    /\ lastCall.op = "approveTask" /\ lastCall.err = "ok" /\ lastCall.id = 1
    /\ balances[MNEE][ESCROW] = tasks[0].amount
    /\ balances[MNEE]["u1"] = InitBal - tasks[0].amount - tasks[1].amount
    /\ balances[MNEE]["u2"] = InitBal + tasks[1].amount

(* ==================== properties of the submission flow ================ *)

(* the step is the one in which evaluateTaskCompletion resolves *)
EvaluateStep == flow.pc = "evaluate" /\ flow'.pc # "evaluate"

(* the step is the flow's autoApproveTask call *)
AutoApproveStep == flow.pc = "autoApprove" /\ flow'.pc # "autoApprove"

(* C19: when the AI call throws or its answer does not parse, the          *)
(* evaluation resolves to isApproved = false, confidence = 0, autoApprove  *)
(* = false, the flow ends in "submitted for review" with the ledger        *)
(* untouched, and the flow calls autoApproveTask only on a parsed answer   *)
(* whose evaluation has autoApprove true and confidence above 80.          *)
C19_FailedEvaluationNeverApproves ==
    [][ /\ (EvaluateStep /\ flow'.answer.kind \in {"throws", "garbage", "null"})
            => /\ flow'.evaluation = Evaluation("false", 0, "false")
               /\ flow'.pc = "review"
               /\ UNCHANGED ledger
        /\ lastCall'.op = "autoApproveTask"
            => /\ AutoApproveStep
               /\ flow.answer.kind = "json"
               /\ flow.evaluation.autoApprove = "true"
               /\ flow.evaluation.confidence > 80
      ]_vars

(* a submission whose evaluation answer did not parse, left for review *)
C19_Witness ==
    /\ flow.pc = "review"
    /\ flow.answer.kind = "garbage"
    /\ flow.evaluation = Evaluation("false", 0, "false")
    /\ TaskAt(flow.id).status = SUBMITTED
    /\ balances[MNEE][ESCROW] = nextTaskId

(* C20 as stated: the automatic approval of a submitted task, made by the  *)
(* wallet that submitted it after an evaluation with autoApprove and       *)
(* confidence above 80, completes the task and pays the agent (a payout    *)
(* the token refuses aside).                                               *)
C20_AsStated ==
    [][ (AutoApproveStep /\ TaskAt(flow.id).status = SUBMITTED
            /\ signer = TaskAt(flow.id).agent
            /\ lastCall'.err # "TransferFailed")
        => /\ TaskIn(tasks', flow.id).status = COMPLETED
           /\ balances'[MNEE][TaskAt(flow.id).agent]
                 = balances[MNEE][TaskAt(flow.id).agent] + TaskAt(flow.id).amount
      ]_vars

(* the agent's automatic approval was refused by the escrow: the task is   *)
(* still SUBMITTED and its amount still locked                             *)
C20_AutoApproveRefused ==
    /\ flow.pc = "failed"
    /\ AutoApproves(flow.evaluation)
    /\ lastCall.op = "autoApproveTask" /\ lastCall.err = "Unauthorized"
    /\ lastCall.sender = TaskAt(flow.id).agent
    /\ TaskAt(flow.id).creator # TaskAt(flow.id).agent
    /\ TaskAt(flow.id).status = SUBMITTED
    /\ balances[MNEE][ESCROW] = nextTaskId

(* the step is the flow's submitTask call *)
SubmitStep == flow.pc = "submit" /\ flow'.pc # "submit"

C28_AsStated ==
    [][ (flow.pc # "failed" /\ flow'.pc = "failed")
            => /\ SubmitStep
               /\ TaskIn(tasks', flow.id).status = OPEN
      ]_vars

(* the flow's submission is recorded on the ledger, its automatic approval *)
(* was refused, and the flow has ended in "Failed to submit task to        *)
(* blockchain" without onRefresh                                           *)
C28_SubmittedButReportedFailed ==
    /\ flow.pc = "failed"
    /\ lastCall.op = "autoApproveTask" /\ lastCall.err # "ok"
    /\ sent = <<"approveTask">>
    /\ TaskAt(flow.id).status = SUBMITTED
    /\ TaskAt(flow.id).result = flow.result

(* ============ properties of the allowance reads and the writes ========= *)

(* checkAllowance calls for the key that have not resolved yet *)
AllowanceWaiting(key) ==
    {i \in DOMAIN allowCalls : allowCalls[i].state = "pending" /\ allowCalls[i].key = key}

(* C23 as stated: a checkAllowance call issued while another call for the  *)
(* same (owner, spender) has not resolved issues no allowance read of its  *)
(* own, so a burst of such calls reads the ledger at most once.            *)
C23_AsStated ==
    [][ (AllowanceStep /\ AllowanceWaiting(NewAllowCall.key) # {})
            => reads'.allowance = reads.allowance ]_vars

(* two checkAllowance calls for one key are unresolved and each has issued *)
(* its own allowance read                                                  *)
C23_BurstReadsTwice ==
    /\ Len(allowCalls) = 2
    /\ allowCalls[1].key = allowCalls[2].key
    /\ allowCalls[1].state = "pending" /\ allowCalls[2].state = "pending"
    /\ allowCalls[1].how = "read" /\ allowCalls[2].how = "read"
    /\ reads.allowance = 2


(* the step is a write call that failed: thrown before a transaction, or   *)
(* its transaction refused                                                 *)
WriteFailedStep == lastCall'.op # "connect" /\ lastCall'.err # "ok"

(* C22: a write call hands each of its transactions to the wallet at most  *)
(* once (createTask: approve, then createTaskWithToken; the others: one    *)
(* transaction); when a transaction fails the call ends there, with the    *)
(* ledger as it was: a failed createTask leaves no creation in progress,   *)
(* and no other failed call starts or resumes one.                         *)
C22_WritesSendOnce ==
    [][ /\ Len(sent') <= 2
        /\ \A i, j \in DOMAIN sent' : i # j => sent'[i] # sent'[j]
        /\ Len(sent') = 2 => sent' = <<"approve", "createTaskWithToken">>
        /\ WriteFailedStep
            => /\ UNCHANGED ledger
               /\ IF lastCall'.op \in {"Web3Service.createTask", "createTaskWithToken"}
                  THEN pending' = NoPending
                  ELSE pending' = pending
      ]_vars

(* a createTask whose approve went through and whose creation was refused  *)
C22_Witness ==
    /\ lastCall.op = "createTaskWithToken" /\ lastCall.err # "ok"
    /\ sent = <<"approve", "createTaskWithToken">>
    /\ pending = NoPending
    /\ allowance[signer] = lastCall.amount
    /\ nextTaskId = 0

(* C25: createTaskWithToken is sent only by a createTask whose approve of  *)
(* the escrow for the amount was confirmed; a malformed agent address ends *)
(* the call before any transaction, and a failed approve ends it before    *)
(* the creation.                                                           *)
C25_ApproveBeforeCreate ==
    [][ /\ lastCall'.op = "createTaskWithToken"
            => /\ pending # NoPending
               /\ lastCall'.amount = pending.amount
               /\ lastCall'.sender = signer
        /\ (pending = NoPending /\ pending' # NoPending)
            => /\ lastCall' = Call("approve", signer, 0, pending'.amount, "", "ok")
               /\ allowance'[signer] = pending'.amount
               /\ pending'.agent # BadAddress
               /\ UNCHANGED <<nextTaskId, tasks, balances>>
        /\ lastCall'.op = "Web3Service.createTask"
            => /\ UNCHANGED ledger
               /\ pending' = NoPending
               /\ lastCall'.err = "InvalidAddress" => sent' = << >>
               /\ lastCall'.err = "ApproveFailed" => sent' = <<"approve">>
      ]_vars

(* a task created by the second transaction of a createTask, its amount    *)
(* taken from the creator under the allowance the first one set            *)
C25_Witness ==
    /\ lastCall.op = "createTaskWithToken" /\ lastCall.err = "ok"
    /\ sent = <<"approve", "createTaskWithToken">>
    /\ nextTaskId = 1
    /\ TaskAt(0).creator = signer /\ TaskAt(0).amount = lastCall.amount
    /\ balances[MNEE][ESCROW] = lastCall.amount
    /\ balances[MNEE][signer] = InitBal - lastCall.amount


(* the step is a call of a write method, up to one of its transactions *)
WriteStep ==
    lastCall'.op \in {"Web3Service.createTask", "approve", "createTaskWithToken",
                      "approveToken", "completeTask", "approveTask",
                      "autoApproveTask"}

(* C24: a write method leaves the cache (and the reads in flight) as they  *)
(* were; a getTasks call that finds an entry for its key stored at most    *)
(* CACHE_TTL ago returns that entry's list whatever the ledger holds by    *)
(* now; once the entry is older the call drops it and waits for a ledger   *)
(* read instead.                                                           *)
C24_WritesKeepCache ==
    [][ /\ WriteStep => UNCHANGED <<cache, sync>>
        /\ (GetTasksStep /\ signer # ZERO)
            => IF Young(NewCall.key)
               THEN /\ NewCall.result = cache[NewCall.key].data
                    /\ NewCall.state = "resolved"
                    /\ UNCHANGED <<cache, reads>>
               ELSE /\ NewCall.state = "pending"
                    /\ NewCall.how \in {"fetch", "join"}
                    /\ NewCall.key \notin DOMAIN cache'
      ]_vars

(* the creator has just approved task 0 through the service while the      *)
(* cache holds, within its TTL, the list read when the task was still OPEN *)
C24_Witness ==
    /\ lastCall.op = "approveTask" /\ lastCall.err = "ok"
    /\ TaskAt(0).status = COMPLETED
    /\ Young(TaskKey("u1", "CLIENT"))
    /\ Len(cache[TaskKey("u1", "CLIENT")].data) = 1
    /\ cache[TaskKey("u1", "CLIENT")].data[1].id = 0
    /\ cache[TaskKey("u1", "CLIENT")].data[1].status = OPEN


(* the call's list came from a ledger read in which no read failed *)
ReadInFull(call) ==
    /\ call.state = "resolved"
    /\ call.how \in {"fetch", "join"}
    /\ Len(call.result) = WindowSize(nextTaskId)

(* C29: the list of a settled fetch is, for the owner and every joined     *)
(* caller whatever their addresses and modes, one and the same list: the   *)
(* ledger's task for each id read, the whole window when no read failed,   *)
(* including tasks whose creator and agent are not the caller; the key     *)
(* only names the cache entry that stores it. Two calls for different      *)
(* (address, mode) that read the same ledger in full return the same list. *)
C29_ListIgnoresCaller ==
    [][ /\ SettleStep
            => /\ \A i \in Waiting : calls'[i].result = Fetched
               /\ \A j \in DOMAIN Fetched :
                    Fetched[j] = ClientTask(Fetched[j].id, TaskAt(Fetched[j].id))
               /\ Len(Fetched) = WindowSize(fetch.total)
                    => FetchedIds = Limit(fetch.total)..(fetch.total - 1)
               /\ cache' = SetCache(cache, calls[fetch.owner].key, Fetched)
        /\ \A i, j \in DOMAIN calls' :
            (ReadInFull(calls'[i]) /\ ReadInFull(calls'[j]) /\ UNCHANGED ledger)
                => calls'[i].result = calls'[j].result
      ]_vars

(* u1 as CLIENT and then u2 as AGENT each read the ledger and got the same *)
(* list, which holds task 0 although u2 neither created it nor is its agent *)
C29_Witness ==
    /\ Len(calls) = 2
    /\ calls[1].key = TaskKey("u1", "CLIENT") /\ calls[1].how = "fetch"
    /\ calls[2].key = TaskKey("u2", "AGENT") /\ calls[2].how = "fetch"
    /\ calls[1].state = "resolved" /\ calls[2].state = "resolved"
    /\ calls[1].result = calls[2].result
    /\ Len(calls[2].result) = nextTaskId
    /\ tasks[0].creator = "u1" /\ tasks[0].agent = "u1"
    /\ \E j \in DOMAIN calls[2].result : calls[2].result[j].id = 0

(* ----------------------- properties of the page ------------------------ *)

(* the step executes an approveTask that emits TaskCompleted(id) *)
EmitsTaskCompleted(id) ==
    /\ id < nextTaskId
    /\ TaskAt(id).status # COMPLETED
    /\ TaskIn(tasks', id).status = COMPLETED

(* C21 as stated: while the wallet is connected, a TaskCompleted event of  *)
(* the ledger is emitted only with the page subscribed to it, so that its  *)
(* notification and deferred refresh can follow.                           *)
C21_AsStated ==
    [][ \A id \in TaskIds :
            (app.mounted /\ signer # ZERO /\ EmitsTaskCompleted(id))
                => app.listening
      ]_vars

(* the connected creator has approved task 0 through the page's service:   *)
(* the ledger has emitted TaskCompleted(0), and the page is not subscribed *)
(* and shows no notification                                               *)
C21_EventUnheard ==
    /\ app.mounted
    /\ signer = "u1"
    /\ lastCall = Call("approveTask", "u1", 0, 0, "", "ok")
    /\ sent = <<"approveTask">>
    /\ TaskAt(0).status = COMPLETED
    /\ ~app.listening
    /\ app.notification = -1
    /\ app.refreshTimers = 0

====
